---- MODULE Spec2Model ----
(***************************************************************************)
(* A model of ip_parser.go: counting the distinct IPv4 addresses of a      *)
(* newline-delimited text file with a shared 2^32-bit presence bitmap.     *)
(*                                                                         *)
(* Bytes are the integers 0..255.  Go slices are 0-indexed, TLA+ sequences *)
(* 1-indexed: At(data, j) is Go's data[j].  A uint32 is kept as a record   *)
(* [hi: 0..255, lo: 0..2^24-1] standing for hi * 2^24 + lo, so that every  *)
(* intermediate value stays inside the model checker's integers while the  *)
(* arithmetic is still arithmetic modulo 2^32.                             *)
(***************************************************************************)
EXTENDS Integers, Sequences, FiniteSets, TLC

\* ------------------------------------------------------------------ bounds
MaxLines == 3
MaxCPU == 3
MaxSumWorkers == 258
MaxBytes == 5

\* --------------------------------------------------------------- constants
BITMAP_SEGMENT_SIZE == 262144
OCTET_MAX_VALUE == 256
NL == 10
DOT == 46
ZERO == 48
SKIP == 7

Two6 == 2^6
Two8 == 2^8
Two16 == 2^16
Two18 == 2^18
Two24 == 2^24

At(data, j) == data[j + 1]

\* ------------------------------------------------------------ uint32 words
U32(hi, lo) == [hi |-> hi, lo |-> lo]

U32Zero == U32(0, 0)

\* byte(x) of a uint32: its low eight bits.
ByteOf(u) == u.lo % Two8

\* x*10 + d modulo 2^32, d a byte.
Mul10Add(u, d) ==
    LET l == u.lo * 10 + d
    IN  U32((u.hi * 10 + (l \div Two24)) % Two8, l % Two24)

\* x << 8 modulo 2^32.
Shl8(u) == U32(u.lo \div Two16, (u.lo % Two16) * Two8)

RECURSIVE BitOr(_, _)
BitOr(a, b) ==
    IF a = 0 THEN b
    ELSE IF b = 0 THEN a
    ELSE (IF a % 2 = 1 \/ b % 2 = 1 THEN 1 ELSE 0) + 2 * BitOr(a \div 2, b \div 2)

\* x | y on uint32.
Or32(x, y) == U32(BitOr(x.hi, y.hi), BitOr(x.lo, y.lo))

\* ---------------------------------------------------------------- parseIPv4
\* data[i] - '0' in byte arithmetic (wraps below '0'), widened to uint32.
DigitOf(b) == (b + Two8 - ZERO) % Two8

ParseStart == [firstOctet |-> 0, restOctets |-> U32Zero,
               currentOctet |-> U32Zero, octetIndex |-> 0]

\* One iteration of the loop of parseIPv4 on byte b.
ParseStep(st, b) ==
    IF b = DOT
    THEN [firstOctet   |-> IF st.octetIndex = 0 THEN ByteOf(st.currentOctet)
                           ELSE st.firstOctet,
          restOctets   |-> IF st.octetIndex = 0 THEN st.restOctets
                           ELSE Or32(Shl8(st.restOctets), st.currentOctet),
          currentOctet |-> U32Zero,
          octetIndex   |-> st.octetIndex + 1]
    ELSE [st EXCEPT !.currentOctet = Mul10Add(st.currentOctet, DigitOf(b))]

RECURSIVE ParseLoop(_, _, _, _)
ParseLoop(data, i, end, st) ==
    IF i >= end THEN st
    ELSE ParseLoop(data, i + 1, end, ParseStep(st, At(data, i)))

\* parseIPv4 with the last octet folded in without the shift.
parseIPv4_noFinalShift(data, start, end) ==
    LET st == ParseLoop(data, start, end, ParseStart)
    IN  [first |-> st.firstOctet,
         rest  |-> Or32(st.restOctets, st.currentOctet)]

\* parseIPv4(data, start, end) = (firstOctet, restOctets).
parseIPv4(data, start, end) ==
    LET st == ParseLoop(data, start, end, ParseStart)
    IN  [first |-> st.firstOctet,
         rest  |-> Or32(Shl8(st.restOctets), st.currentOctet)]

\* -------------------------------------------------------------- setBitLocal
\* The bitmap is the set of positions <<segment, word, bit>> whose bit is 1;
\* the all-zero array of the source is the empty set.
WordIdx(rest) == rest.hi * Two18 + (rest.lo \div Two6)

BitIdx(rest) == rest.lo % Two6

\* Go checks every array index: an index outside the array panics.
InBitmap(shard, wordIdx) ==
    /\ shard \in 0 .. OCTET_MAX_VALUE - 1
    /\ wordIdx \in 0 .. BITMAP_SEGMENT_SIZE - 1

\* A plain store of 1 << bitIdx: the other bits of the word are lost.
OrUint64_store(bm, shard, wordIdx, bitIdx) ==
    {t \in bm : t[1] # shard \/ t[2] # wordIdx} \cup {<<shard, wordIdx, bitIdx>>}

\* An exclusive or in place of the or: a second mark of a bit clears it.
OrUint64_xor(bm, shard, wordIdx, bitIdx) ==
    IF <<shard, wordIdx, bitIdx>> \in bm
    THEN bm \ {<<shard, wordIdx, bitIdx>>}
    ELSE bm \cup {<<shard, wordIdx, bitIdx>>}

\* atomic.OrUint64(&segments[shard][wordIdx], 1 << bitIdx)
OrUint64(bm, shard, wordIdx, bitIdx) == bm \cup {<<shard, wordIdx, bitIdx>>}

setBitLocal(bm, shard, rest) == OrUint64(bm, shard, WordIdx(rest), BitIdx(rest))

\* ---------------------------------------------------------- getChunkOffsets
\* The inner loop with idx = j, the absolute index, instead of j - proposed.
RECURSIVE FindIdx_absolute(_, _, _)
FindIdx_absolute(data, proposed, j) ==
    IF j >= Len(data) THEN -1
    ELSE IF At(data, j) = NL THEN j
    ELSE FindIdx_absolute(data, proposed, j + 1)

\* The inner loop: the first j in proposed..len-1 with data[j] = '\n', as
\* idx = j - proposed, or -1 when the loop runs out.
RECURSIVE FindIdx(_, _, _)
FindIdx(data, proposed, j) ==
    IF j >= Len(data) THEN -1
    ELSE IF At(data, j) = NL THEN j - proposed
    ELSE FindIdx(data, proposed, j + 1)

ChunkSizePerWorker(data, W) == (Len(data) + W - 1) \div W

\* The boundaries left at the proposed offsets, not moved to a line start.
getChunkOffsets_unaligned(data, W) ==
    [k \in 0 .. W |->
        IF k = W \/ k * ChunkSizePerWorker(data, W) >= Len(data) THEN Len(data)
        ELSE k * ChunkSizePerWorker(data, W)]

\* The outer loop from index i on, offs the slice so far.
RECURSIVE OffsetsLoop(_, _, _, _)
OffsetsLoop(data, W, i, offs) ==
    IF i >= W THEN offs
    ELSE LET proposed == i * ChunkSizePerWorker(data, W)
         IN  IF proposed >= Len(data)
             THEN [k \in 0 .. W |-> IF k >= i /\ k < W THEN Len(data) ELSE offs[k]]
             ELSE OffsetsLoop(data, W, i + 1,
                      [offs EXCEPT ![i] = proposed + FindIdx(data, proposed, proposed) + 1])

getChunkOffsets(data, W) ==
    OffsetsLoop(data, W, 1,
        [k \in 0 .. W |-> IF k = W THEN Len(data) ELSE 0])

\* ------------------------------------------------------------- processChunk
\* The scan loop from index i on: the first j in i..end-1 with data[j] = '\n',
\* or -1 when the loop reaches end without seeing one.
RECURSIVE NextNL(_, _, _)
NextNL(data, i, end) ==
    IF i >= end THEN -1
    ELSE IF At(data, i) = NL THEN i
    ELSE NextNL(data, i + 1, end)

\* processChunk run by one worker alone from loop index i and lineStart, on
\* bitmap bm (a mark outside the bitmap leaves bm as it is).
RECURSIVE processChunk(_, _, _, _, _)
processChunk(data, i, lineStart, end, bm) ==
    LET j == NextNL(data, i, end)
        to == IF j = -1 THEN end ELSE j
        p == parseIPv4(data, lineStart, to)
        marked == IF lineStart < to \/ j # -1
                  THEN (IF InBitmap(p.first, WordIdx(p.rest))
                        THEN setBitLocal(bm, p.first, p.rest) ELSE bm)
                  ELSE bm
    IN  IF j = -1 THEN marked
        ELSE processChunk(data, j + SKIP + 1, j + 1, end, marked)

\* -------------------------------------------------------- countBitsParallel
\* The segments per worker rounded down instead of up.
SegmentsPerWorker_floor(R) == OCTET_MAX_VALUE \div R

SegmentsPerWorker(R) == (OCTET_MAX_VALUE + R - 1) \div R

SegStart(R, workerIndex) == workerIndex * SegmentsPerWorker(R)

Min(a, b) == IF a <= b THEN a ELSE b

SegEnd(R, workerIndex) ==
    Min(SegStart(R, workerIndex) + SegmentsPerWorker(R), OCTET_MAX_VALUE)

\* The sum of OnesCount64 over the words of segments start..end-1.
LocalCount(bm, R, workerIndex) ==
    Cardinality({t \in bm : /\ SegStart(R, workerIndex) <= t[1]
                            /\ t[1] < SegEnd(R, workerIndex)})

\* cs[lo] + ... + cs[hi - 1], added up by halves.
RECURSIVE SumRange(_, _, _)
SumRange(cs, lo, hi) ==
    IF hi <= lo THEN 0
    ELSE IF hi = lo + 1 THEN cs[lo]
    ELSE LET mid == (lo + hi) \div 2
         IN  SumRange(cs, lo, mid) + SumRange(cs, mid, hi)

\* The loop total += counts[k] over the n slots of counts.
SumTo(cs, n) == SumRange(cs, 0, n)

\* countBitsParallel(bitmap) with R reduce workers: each worker's localCount in
\* its own slot of counts, then the total.
CountsOf(bm, R) == [w \in 0 .. R - 1 |-> LocalCount(bm, R, w)]

countBitsParallel(bm, R) == SumTo(CountsOf(bm, R), R)

\* The calls processChunk makes, in order, run by one worker alone from loop
\* index i and lineStart.
RECURSIVE chunkCalls(_, _, _, _)
chunkCalls(data, i, lineStart, end) ==
    LET j == NextNL(data, i, end)
        to == IF j = -1 THEN end ELSE j
        p == parseIPv4(data, lineStart, to)
        c == [from |-> lineStart, to |-> to, first |-> p.first, rest |-> p.rest]
    IN  IF j = -1 THEN (IF lineStart < end THEN <<c>> ELSE << >>)
        ELSE <<c>> \o chunkCalls(data, j + SKIP + 1, j + 1, end)

\* ------------------------------------------------------------------ inputs
RECURSIVE Dec(_)
Dec(n) == IF n < 10 THEN <<ZERO + n>> ELSE Dec(n \div 10) \o <<ZERO + (n % 10)>>

\* The dotted-decimal text of address <<a, b, c, d>>.
AddrLine(a) ==
    Dec(a[1]) \o <<DOT>> \o Dec(a[2]) \o <<DOT>> \o Dec(a[3]) \o <<DOT>> \o Dec(a[4])

ValidAddrs == {<<1, 2, 3, 4>>, <<1, 2, 3, 5>>, <<255, 255, 255, 255>>}

ValidLines == {AddrLine(a) : a \in ValidAddrs}

\* An empty line, and 1.1.1.1.1 (an extra dot).
MalformedLines == {<< >>, AddrLine(<<1, 1, 1, 1>>) \o <<DOT, ZERO + 1>>}

LinePool == ValidLines \cup MalformedLines

RECURSIVE Render(_, _)
Render(ls, terminated) ==
    IF ls = << >> THEN << >>
    ELSE IF Len(ls) = 1 THEN (IF terminated THEN ls[1] \o <<NL>> ELSE ls[1])
    ELSE ls[1] \o <<NL>> \o Render(Tail(ls), terminated)

Files ==
    {Render(ls, t) : ls \in UNION {[1 .. n -> LinePool] : n \in 0 .. MaxLines},
                     t \in BOOLEAN}

\* What the operating system answers to open, stat and mmap.
Envs == {"ok", "open_fail", "stat_fail", "mmap_fail"}

\* ------------------------------------------------------------------- state
VARIABLES
    env,        \* the outcome of the system calls on the input file
    numCPU,     \* runtime.NumCPU()
    file,       \* the bytes of the input file
    pc,         \* where main / countUniqueIPs stands
    data,       \* the mapped view of the file
    offsets,    \* the result of getChunkOffsets
    wpc,        \* per scan worker: "idle", "loop" or "done"
    start,      \* per scan worker: processChunk's start
    end,        \* per scan worker: processChunk's end
    i,          \* per scan worker: the loop index of processChunk
    lineStart,  \* per scan worker: processChunk's lineStart
    calls,      \* per scan worker: its parseIPv4 / setBitLocal calls so far
    bitmap,     \* the positions of the bits that are 1
    rpc,        \* per reduce worker: "idle", "run" or "done"
    counts,     \* countBitsParallel's counts slice
    count,      \* the value countUniqueIPs returned
    printed     \* the counts main printed

vars == <<env, numCPU, file, pc, data, offsets, wpc, start, end, i, lineStart,
          calls, bitmap, rpc, counts, count, printed>>

WORKERS_AMOUNT == numCPU

WORKERS_SUM_AMOUNT == numCPU

ScanWorkers == 0 .. WORKERS_AMOUNT - 1

SumWorkers == 0 .. WORKERS_SUM_AMOUNT - 1

InitWith(fileSet, cpuSet) ==
    /\ env \in Envs
    /\ numCPU \in cpuSet
    /\ file \in fileSet
    /\ pc = "open"
    /\ data = << >>
    /\ offsets = << >>
    /\ wpc = [w \in ScanWorkers |-> "idle"]
    /\ start = [w \in ScanWorkers |-> 0]
    /\ end = [w \in ScanWorkers |-> 0]
    /\ i = [w \in ScanWorkers |-> 0]
    /\ lineStart = [w \in ScanWorkers |-> 0]
    /\ calls = [w \in ScanWorkers |-> << >>]
    /\ bitmap = {}
    /\ rpc = [w \in SumWorkers |-> "idle"]
    /\ counts = [w \in SumWorkers |-> 0]
    /\ count = 0
    /\ printed = << >>

Init == InitWith(Files, 1 .. MaxCPU)

\* ----------------------------------------------------------------- actions
\* getMmapDataFromFilename: os.Open panics on an error; the error of
\* file.Stat is dropped and fileInfo.Size() then dereferences nil;
\* syscall.Mmap answers EINVAL for a length <= 0 and the caller panics.
getMmapDataFromFilename ==
    /\ pc = "open"
    /\ IF env = "ok" /\ Len(file) > 0
       THEN /\ data' = file
            /\ pc' = "split"
       ELSE /\ pc' = "panic"
            /\ UNCHANGED data
    /\ UNCHANGED <<env, numCPU, file, offsets, wpc, start, end, i, lineStart,
                   calls, bitmap, rpc, counts, count, printed>>

\* countUniqueIPs, line 46.
SplitChunks ==
    /\ pc = "split"
    /\ offsets' = getChunkOffsets(data, WORKERS_AMOUNT)
    /\ pc' = "spawn"
    /\ UNCHANGED <<env, numCPU, file, data, wpc, start, end, i, lineStart,
                   calls, bitmap, rpc, counts, count, printed>>

\* countUniqueIPs, lines 50-56: one goroutine per range.
SpawnScan ==
    /\ pc = "spawn"
    /\ start' = [w \in ScanWorkers |-> offsets[w]]
    /\ end' = [w \in ScanWorkers |-> offsets[w + 1]]
    /\ i' = [w \in ScanWorkers |-> offsets[w]]
    /\ lineStart' = [w \in ScanWorkers |-> offsets[w]]
    /\ wpc' = [w \in ScanWorkers |-> "loop"]
    /\ pc' = "scan"
    /\ UNCHANGED <<env, numCPU, file, data, offsets, calls, bitmap, rpc,
                   counts, count, printed>>

\* parseIPv4 then setBitLocal on data[from, to) by worker w; an index outside
\* the bitmap panics and ends the process.
Mark(w, from, to) ==
    LET p == parseIPv4(data, from, to)
    IN  /\ calls' = [calls EXCEPT ![w] = Append(@,
                        [from |-> from, to |-> to, first |-> p.first, rest |-> p.rest])]
        /\ IF InBitmap(p.first, WordIdx(p.rest))
           THEN /\ bitmap' = setBitLocal(bitmap, p.first, p.rest)
                /\ pc' = pc
           ELSE /\ bitmap' = bitmap
                /\ pc' = "panic"

\* processChunk, lines 98-105: the loop up to and including the next '\n' it
\* sees, the mark of the line before it, and the skip forward.
ScanLine(w) ==
    /\ pc = "scan"
    /\ wpc[w] = "loop"
    /\ LET j == NextNL(data, i[w], end[w])
       IN  /\ j # -1
           /\ Mark(w, lineStart[w], j)
           /\ lineStart' = [lineStart EXCEPT ![w] = j + 1]
           /\ i' = [i EXCEPT ![w] = j + SKIP + 1]
    /\ UNCHANGED <<env, numCPU, file, data, offsets, wpc, start, end, rpc,
                   counts, count, printed>>

\* The rest of the range marked without the test that it is not empty.
ScanTail_alwaysMark(w) ==
    /\ pc = "scan"
    /\ wpc[w] = "loop"
    /\ NextNL(data, i[w], end[w]) = -1
    /\ Mark(w, lineStart[w], end[w])
    /\ wpc' = [wpc EXCEPT ![w] = "done"]
    /\ UNCHANGED <<env, numCPU, file, data, offsets, start, end, i, lineStart,
                   rpc, counts, count, printed>>

\* processChunk, lines 105-110, and the deferred wg.Done: the loop runs out,
\* the rest of the range is marked when it is not empty.
ScanTail(w) ==
    /\ pc = "scan"
    /\ wpc[w] = "loop"
    /\ NextNL(data, i[w], end[w]) = -1
    /\ IF lineStart[w] < end[w]
       THEN Mark(w, lineStart[w], end[w])
       ELSE UNCHANGED <<calls, bitmap, pc>>
    /\ wpc' = [wpc EXCEPT ![w] = "done"]
    /\ UNCHANGED <<env, numCPU, file, data, offsets, start, end, i, lineStart,
                   rpc, counts, count, printed>>

\* The reduce workers started without the wait for the scan workers.
JoinScan_noWait ==
    /\ pc = "scan"
    /\ pc' = "reduce"
    /\ rpc' = [w \in SumWorkers |-> "run"]
    /\ counts' = [w \in SumWorkers |-> 0]
    /\ UNCHANGED <<env, numCPU, file, data, offsets, wpc, start, end, i,
                   lineStart, calls, bitmap, count, printed>>

\* countUniqueIPs, lines 57-59, and countBitsParallel, lines 123-143: wg.Wait
\* returns once every scan worker is done; the reduce workers are started.
JoinScan ==
    /\ pc = "scan"
    /\ \A w \in ScanWorkers : wpc[w] = "done"
    /\ pc' = "reduce"
    /\ rpc' = [w \in SumWorkers |-> "run"]
    /\ counts' = [w \in SumWorkers |-> 0]
    /\ UNCHANGED <<env, numCPU, file, data, offsets, wpc, start, end, i,
                   lineStart, calls, bitmap, count, printed>>

\* countBitsParallel, lines 130-142: one reduce worker.
SumWorker(w) ==
    /\ pc = "reduce"
    /\ rpc[w] = "run"
    /\ counts' = [counts EXCEPT ![w] = LocalCount(bitmap, WORKERS_SUM_AMOUNT, w)]
    /\ rpc' = [rpc EXCEPT ![w] = "done"]
    /\ UNCHANGED <<env, numCPU, file, pc, data, offsets, wpc, start, end, i,
                   lineStart, calls, bitmap, count, printed>>

\* The total summed without the wait for the reduce workers.
ReturnTotal_noWait ==
    /\ pc = "reduce"
    /\ count' = SumTo(counts, WORKERS_SUM_AMOUNT)
    /\ pc' = "returned"
    /\ UNCHANGED <<env, numCPU, file, data, offsets, wpc, start, end, i,
                   lineStart, calls, bitmap, rpc, counts, printed>>

\* countBitsParallel, lines 144-150: wg.Wait, the total, the return.
ReturnTotal ==
    /\ pc = "reduce"
    /\ \A w \in SumWorkers : rpc[w] = "done"
    /\ count' = SumTo(counts, WORKERS_SUM_AMOUNT)
    /\ pc' = "returned"
    /\ UNCHANGED <<env, numCPU, file, data, offsets, wpc, start, end, i,
                   lineStart, calls, bitmap, rpc, counts, printed>>

\* main, line 38.
PrintCount ==
    /\ pc = "returned"
    /\ printed' = Append(printed, count)
    /\ pc' = "printed"
    /\ UNCHANGED <<env, numCPU, file, data, offsets, wpc, start, end, i,
                   lineStart, calls, bitmap, rpc, counts, count>>

Next ==
    \/ getMmapDataFromFilename
    \/ SplitChunks
    \/ SpawnScan
    \/ \E w \in ScanWorkers : ScanLine(w)
    \/ \E w \in ScanWorkers : ScanTail(w)
    \/ JoinScan
    \/ \E w \in SumWorkers : SumWorker(w)
    \/ ReturnTotal
    \/ PrintCount

Spec == Init /\ [][Next]_vars

\* Every byte sequence of at most MaxBytes bytes over '\n', '.' and '1'.
ByteFiles == UNION {[1 .. n -> {NL, DOT, ZERO + 1}] : n \in 0 .. MaxBytes}

InitBytes == InitWith(ByteFiles, 1 .. MaxCPU)

SpecBytes == InitBytes /\ [][Next]_vars

\* One address line, with and without its '\n', over a grid of octets.
OctetSamples == {0, 1, 9, 10, 100, 255}

SampleAddrs == OctetSamples \X OctetSamples \X OctetSamples \X OctetSamples

AddrFiles == {Render(<<AddrLine(a)>>, t) : a \in SampleAddrs, t \in BOOLEAN}

InitAddr == InitWith(AddrFiles, {1})

SpecAddr == InitAddr /\ [][Next]_vars

\* countBitsParallel as a function of the bitmap and the worker count, for
\* every worker count up to MaxSumWorkers: the run starts where the scan of a
\* file of '\n'-terminated address lines has just ended, every scan worker
\* done, and the reduction is taken in one step.
ReduceAddrs == <<<<0, 0, 0, 0>>, <<255, 255, 255, 255>>, <<85, 0, 1, 1>>, <<86, 0, 0, 7>>>>

ReduceFiles ==
    {Render([k \in 1 .. n |-> AddrLine(ReduceAddrs[k])], TRUE) : n \in 2 .. Len(ReduceAddrs)}

InitReduce ==
    /\ env = "ok"
    /\ numCPU \in 1 .. MaxSumWorkers
    /\ file \in ReduceFiles
    /\ pc = "scan"
    /\ data = file
    /\ offsets = getChunkOffsets(file, WORKERS_AMOUNT)
    /\ wpc = [w \in ScanWorkers |-> "done"]
    /\ start = [w \in ScanWorkers |-> offsets[w]]
    /\ end = [w \in ScanWorkers |-> offsets[w + 1]]
    /\ calls = [w \in ScanWorkers |-> chunkCalls(file, offsets[w], offsets[w], offsets[w + 1])]
    /\ lineStart = [w \in ScanWorkers |->
                       IF calls[w] = << >> THEN offsets[w]
                       ELSE calls[w][Len(calls[w])].to + 1]
    /\ i = [w \in ScanWorkers |->
               IF calls[w] = << >> THEN offsets[w]
               ELSE calls[w][Len(calls[w])].to + SKIP + 1]
    /\ bitmap = UNION {processChunk(file, offsets[w], offsets[w], offsets[w + 1], {}) :
                          w \in ScanWorkers}
    /\ rpc = [w \in SumWorkers |-> "idle"]
    /\ counts = [w \in SumWorkers |-> 0]
    /\ count = 0
    /\ printed = << >>

\* countBitsParallel, lines 130-150: every reduce worker, then the total.
ReduceAll ==
    /\ pc = "reduce"
    /\ \A w \in SumWorkers : rpc[w] = "run"
    /\ counts' = CountsOf(bitmap, WORKERS_SUM_AMOUNT)
    /\ rpc' = [w \in SumWorkers |-> "done"]
    /\ count' = countBitsParallel(bitmap, WORKERS_SUM_AMOUNT)
    /\ pc' = "returned"
    /\ UNCHANGED <<env, numCPU, file, data, offsets, wpc, start, end, i,
                   lineStart, calls, bitmap, printed>>

NextReduce ==
    \/ JoinScan
    \/ ReduceAll
    \/ PrintCount

SpecReduce == InitReduce /\ [][NextReduce]_vars

\* ============================================================== properties
\* The lines of a file: the bytes between consecutive '\n', and the bytes after
\* the last '\n' when there are any.
RECURSIVE SplitFrom(_, _, _, _)
SplitFrom(f, k, cur, acc) ==
    IF k > Len(f) THEN (IF cur = << >> THEN acc ELSE Append(acc, cur))
    ELSE IF f[k] = NL THEN SplitFrom(f, k + 1, << >>, Append(acc, cur))
    ELSE SplitFrom(f, k + 1, Append(cur, f[k]), acc)

SplitLines(f) == SplitFrom(f, 1, << >>, << >>)

Terminated(f) == f = << >> \/ f[Len(f)] = NL

WellFormedLines(f) ==
    LET ls == SplitLines(f) IN \A k \in 1 .. Len(ls) : ls[k] \in ValidLines

AddrOf(line) == CHOOSE a \in ValidAddrs : AddrLine(a) = line

DistinctAddrs(f) ==
    LET ls == SplitLines(f) IN {AddrOf(ls[k]) : k \in 1 .. Len(ls)}

\* The index of the first byte of the last line.
LastLineStart(f) ==
    LET nls == {k \in 1 .. Len(f) : f[k] = NL}
    IN  IF nls = {} THEN 0 ELSE CHOOSE k \in nls : \A m \in nls : m <= k

InputMapped == env = "ok" /\ Len(file) > 0

Returned == pc \in {"returned", "printed"}

AfterSplit == pc \in {"spawn", "scan", "reduce", "returned", "printed"}

AfterJoin == pc \in {"reduce", "returned", "printed"}

BitPos(c) == <<c.first, WordIdx(c.rest), BitIdx(c.rest)>>

AllCalls == UNION {{calls[w][k] : k \in 1 .. Len(calls[w])} : w \in ScanWorkers}

\* C1: for a file of well-formed address lines, each ended by '\n', the run
\* does not crash and the count it returns is the number of distinct addresses
\* of the file, for every worker count and every interleaving; so repeated
\* lines do not change the count.
C1_CountsDistinctAddresses ==
    (/\ pc \in {"panic", "returned", "printed"}
     /\ InputMapped
     /\ Terminated(file)
     /\ WellFormedLines(file))
    => /\ pc # "panic"
       /\ count = Cardinality(DistinctAddrs(file))

C1_Witness ==
    /\ pc = "printed"
    /\ numCPU >= 2
    /\ Terminated(file)
    /\ WellFormedLines(file)
    /\ Len(SplitLines(file)) = 3
    /\ count = 2
    /\ printed = <<2>>

\* C2: for a file of well-formed address lines, ended by '\n' or not, the
\* count returned with any number of scan workers is the count a single
\* worker scanning the whole file returns.
C2_SameCountAsSequential ==
    (Returned /\ WellFormedLines(file))
    => count = Cardinality(processChunk(file, 0, 0, Len(file), {}))

\* C3: when the last line of a file of well-formed address lines has no '\n',
\* no range boundary falls inside that line, one worker parses it as one whole
\* line, and its bit is set when the scan is over.
C3_LastLineWhole ==
    (AfterSplit /\ WellFormedLines(file) /\ ~Terminated(file))
    => /\ \A k \in 0 .. WORKERS_AMOUNT :
            ~(LastLineStart(file) < offsets[k] /\ offsets[k] < Len(file))
       /\ AfterJoin =>
            \E c \in AllCalls : /\ c.from = LastLineStart(file)
                                /\ c.to = Len(file)
                                /\ BitPos(c) \in bitmap

\* C4: every offset getChunkOffsets returns is 0, len(data) or the index just
\* after a '\n'.
C4_OffsetsOnLineBoundaries ==
    AfterSplit =>
        \A k \in 0 .. WORKERS_AMOUNT :
            \/ offsets[k] = 0
            \/ offsets[k] = Len(data)
            \/ At(data, offsets[k] - 1) = NL

\* C5: whatever the bytes of the file, scanning does not crash: every
\* (firstOctet, remainder) parseIPv4 produces indexes a segment in [0, 256) and
\* a word in [0, 262144).
C5_MarksStayInsideBitmap ==
    /\ InputMapped => pc # "panic"
    /\ \A c \in AllCalls : InBitmap(c.first, WordIdx(c.rest))

\* The text of every sample address, with the address.
AddrTable == {<<AddrLine(a), a>> : a \in SampleAddrs}

\* The bytes data[from, to) a call parsed.
LineOfCall(c) == SubSeq(data, c.from + 1, c.to)

\* The four octets that bitmap position <<segment, word, bit>> stands for.
Reconstruct(t) ==
    LET r == t[2] * Two6 + t[3]
    IN  <<t[1], r \div Two16, (r \div Two8) % Two8, r % Two8>>

\* C6: on a well-formed line a.b.c.d parseIPv4 returns firstOctet = a and
\* remainder = b*65536 + c*256 + d, and the bit setBitLocal then sets is in the
\* bitmap and reconstructs to <<a, b, c, d>>, so that distinct addresses have
\* distinct bits.
C6_ParseRoundTrip ==
    \A c \in AllCalls : \A p \in AddrTable :
        LineOfCall(c) = p[1] =>
            LET a == p[2]
            IN  /\ c.first = a[1]
                /\ c.rest = U32(0, a[2] * Two16 + a[3] * Two8 + a[4])
                /\ BitPos(c) \in bitmap
                /\ Reconstruct(BitPos(c)) = a

C6_Witness ==
    /\ pc = "printed"
    /\ \E c \in AllCalls :
          /\ LineOfCall(c) = AddrLine(<<255, 100, 9, 255>>)
          /\ c.first = 255
          /\ BitPos(c) \in bitmap
          /\ Reconstruct(BitPos(c)) = <<255, 100, 9, 255>>

\* C7: for an empty file the run completes, sets no bit and reports 0.
C7_EmptyFileCountsZero ==
    (env = "ok" /\ Len(file) = 0)
    => /\ pc # "panic"
       /\ bitmap = {}
       /\ pc = "printed" => printed = <<0>>

\* C8: when the file cannot be opened, sized or mapped the run aborts before a
\* scan worker starts, with no bit set and no count printed; otherwise the run
\* does not abort, the whole file is processed and exactly one count is
\* printed.
C8_AbortBeforeScanOrOneCount ==
    /\ ~InputMapped =>
          /\ pc \in {"open", "panic"}
          /\ \A w \in ScanWorkers : wpc[w] = "idle"
          /\ bitmap = {}
          /\ printed = << >>
    /\ InputMapped =>
          /\ pc # "panic"
          /\ Len(printed) <= 1
          /\ pc = "printed" =>
                /\ Len(printed) = 1
                /\ \A w \in ScanWorkers : wpc[w] = "done"

\* C9: getChunkOffsets returns W+1 offsets, the first 0, the last len(data),
\* never decreasing, so that every byte lies in exactly one range; from the
\* first proposed offset k*ceil(len/W) that is >= len(data) on, every offset is
\* len(data).
C9_OffsetsPartitionFile ==
    AfterSplit =>
        LET W == WORKERS_AMOUNT
        IN  /\ DOMAIN offsets = 0 .. W
            /\ offsets[0] = 0
            /\ offsets[W] = Len(data)
            /\ \A k \in 0 .. W - 1 : offsets[k] <= offsets[k + 1]
            /\ \A b \in 0 .. Len(data) - 1 :
                  Cardinality({k \in 0 .. W - 1 :
                                  offsets[k] <= b /\ b < offsets[k + 1]}) = 1
            /\ \A k \in 1 .. W - 1 :
                  k * ChunkSizePerWorker(data, W) >= Len(data)
                  => \A m \in k .. W : offsets[m] = Len(data)

C9_Witness ==
    /\ AfterSplit
    /\ numCPU >= 3
    /\ 0 < offsets[1]
    /\ offsets[1] < offsets[2]
    /\ \E k \in 1 .. WORKERS_AMOUNT - 1 :
          /\ k * ChunkSizePerWorker(data, WORKERS_AMOUNT) >= Len(data)
          /\ offsets[k] = Len(data)

\* C10: no mark is lost: in every interleaving the set bits are exactly the
\* bits of the calls made so far, and once every scan worker has finished they
\* are the union of what each worker sets when it runs its range alone.
C10_NoLostUpdate ==
    /\ pc # "panic" => bitmap = {BitPos(c) : c \in AllCalls}
    /\ AfterJoin =>
          bitmap = UNION {processChunk(data, offsets[w], offsets[w], offsets[w + 1], {}) :
                             w \in ScanWorkers}

C10_Witness ==
    /\ AfterJoin
    /\ Terminated(file)
    /\ WellFormedLines(file)
    /\ \E w1, w2 \in ScanWorkers :
          /\ w1 # w2
          /\ \E k1 \in 1 .. Len(calls[w1]), k2 \in 1 .. Len(calls[w2]) :
                LET c1 == calls[w1][k1]
                    c2 == calls[w2][k2]
                IN  /\ c1.first = c2.first
                    /\ WordIdx(c1.rest) = WordIdx(c2.rest)
                    /\ BitIdx(c1.rest) # BitIdx(c2.rest)
                    /\ BitPos(c1) \in bitmap
                    /\ BitPos(c2) \in bitmap

\* C11: a reduce worker exists only once every scan worker is done, so that
\* countBitsParallel starts after the last setBitLocal call of every scan
\* worker; and no step taken during or after the reduction changes the bitmap.
C11_ReduceAfterScanJoin ==
    /\ []((\E r \in SumWorkers : rpc[r] # "idle")
            => /\ AfterJoin
               /\ \A w \in ScanWorkers : wpc[w] = "done")
    /\ [][AfterJoin => (bitmap' = bitmap /\ calls' = calls)]_vars

C11_Witness ==
    /\ pc = "reduce"
    /\ Terminated(file)
    /\ WellFormedLines(file)
    /\ numCPU >= 2
    /\ \E r \in SumWorkers : rpc[r] = "done"
    /\ \E r \in SumWorkers : rpc[r] = "run"
    /\ \A w \in ScanWorkers : wpc[w] = "done"
    /\ \E w1, w2 \in ScanWorkers : w1 # w2 /\ calls[w1] # << >> /\ calls[w2] # << >>
    /\ Cardinality(bitmap) >= 2

\* The reduce workers whose segment range [start, end) holds segment seg.
OwnersOf(seg, R) ==
    {w \in 0 .. R - 1 : SegStart(R, w) <= seg /\ seg < SegEnd(R, w)}

\* C12: for every reduce worker count R, also when R does not divide 256 or
\* is above 256, each worker's range starts where the range before it ends,
\* each of the 256 segments lies in the range of exactly one worker, and the
\* total returned is the number of set bits of the whole bitmap, whatever R.
C12_ReduceCountsEveryBitOnce ==
    pc = "returned" =>
        LET R == WORKERS_SUM_AMOUNT
        IN  /\ count = Cardinality(bitmap)
            /\ SegStart(R, 0) = 0
            /\ \A w \in 0 .. R - 2 :
                  SegStart(R, w + 1) = SegStart(R, w) + SegmentsPerWorker(R)
            /\ \A seg \in 0 .. OCTET_MAX_VALUE - 1 :
                  Cardinality(OwnersOf(seg, R)) = 1

C12_Witness ==
    /\ pc = "returned"
    /\ WORKERS_SUM_AMOUNT > OCTET_MAX_VALUE
    /\ Cardinality(bitmap) = 4
    /\ count = 4
    /\ counts[0] = 1
    /\ counts[OCTET_MAX_VALUE - 1] = 1
    /\ counts[OCTET_MAX_VALUE] = 0

\* C13: whatever the bytes of a range, lines shorter than the skip included,
\* a worker that has finished its range has seen every '\n' of it: each one
\* ended a line that the worker parsed.
C13_EveryTerminatorDetected ==
    \A w \in ScanWorkers :
        wpc[w] = "done" =>
            \A j \in start[w] .. end[w] - 1 :
                At(data, j) = NL => \E k \in 1 .. Len(calls[w]) : calls[w][k].to = j

\* C14: the mark is made only for non-empty lines, so that a file made of
\* line terminators alone gives the count 0.
C14_OnlyNonEmptyLinesMarked ==
    /\ \A c \in AllCalls : c.from < c.to
    /\ (Returned /\ \A k \in 1 .. Len(file) : file[k] = NL) => count = 0

\* C15: no bit is set before the scan workers are started; a step never
\* clears a bit; and a step that changes the bitmap is one setBitLocal call,
\* which adds at most the one bit it addresses.
C15_BitsOnlyEverSet ==
    /\ [](pc \in {"open", "split", "spawn"} => bitmap = {})
    /\ [][/\ bitmap \subseteq bitmap'
          /\ Cardinality(bitmap' \ bitmap) <= 1
          /\ bitmap' # bitmap =>
                \E w \in ScanWorkers :
                    /\ Len(calls'[w]) = Len(calls[w]) + 1
                    /\ bitmap' = bitmap \cup {BitPos(calls'[w][Len(calls'[w])])}]_vars

C15_Witness ==
    /\ pc = "printed"
    /\ Cardinality(bitmap) >= 2
    /\ \E w \in ScanWorkers :
          \E k1, k2 \in 1 .. Len(calls[w]) :
              /\ k1 < k2
              /\ BitPos(calls[w][k1]) = BitPos(calls[w][k2])
              /\ BitPos(calls[w][k1]) \in bitmap

\* The process is over: main has returned after the print, or a panic has
\* ended the process with every goroutine in it.
Exited == pc \in {"printed", "panic"}

\* C16: a run on a mapped input ends only when it is complete: when the
\* process is over, the splitter has produced its offsets, every scan worker
\* has reached the end of its range and signalled completion, every reduce
\* worker has finished, and exactly one count has been printed.
C16_RunEndsWithOneCount ==
    (InputMapped /\ Exited) =>
        /\ pc = "printed"
        /\ DOMAIN offsets = 0 .. WORKERS_AMOUNT
        /\ \A w \in ScanWorkers : wpc[w] = "done"
        /\ \A w \in SumWorkers : rpc[w] = "done"
        /\ Len(printed) = 1

\* C17: each reduce worker w writes its own slot counts[w] and no other, once:
\* a step that changes counts after the allocation is the one step of one
\* running worker, it stores that worker's local count in that worker's slot
\* and nothing else, and a finished worker's slot never changes again. The
\* total is read only when every reduce worker is done, so it is the sum of the
\* complete local counts.
C17_AccumulatorsOwned ==
    /\ [](Returned =>
            /\ \A w \in SumWorkers :
                  /\ rpc[w] = "done"
                  /\ counts[w] = LocalCount(bitmap, WORKERS_SUM_AMOUNT, w)
            /\ count = SumTo(counts, WORKERS_SUM_AMOUNT))
    /\ [][/\ (pc = "reduce" /\ (counts' # counts \/ rpc' # rpc)) =>
                \E w \in SumWorkers :
                    /\ rpc[w] = "run"
                    /\ rpc' = [rpc EXCEPT ![w] = "done"]
                    /\ counts' = [counts EXCEPT
                                    ![w] = LocalCount(bitmap, WORKERS_SUM_AMOUNT, w)]
          /\ \A w \in SumWorkers :
                rpc[w] = "done" => rpc'[w] = "done" /\ counts'[w] = counts[w]
          /\ (pc = "reduce" /\ pc' = "returned") =>
                \A w \in SumWorkers : rpc[w] = "done"]_vars

C17_Witness ==
    /\ pc = "returned"
    /\ Terminated(file)
    /\ WellFormedLines(file)
    /\ \E w1, w2 \in SumWorkers : w1 # w2 /\ counts[w1] > 0 /\ counts[w2] > 0
    /\ count = Cardinality(bitmap)
    /\ count >= 2

\* The indices of the '\n' bytes of the mapped file.
Terminators == {j \in 0 .. Len(data) - 1 : At(data, j) = NL}

\* The index of the first byte of the line that the '\n' at index j ends.
LineStartOf(j) ==
    LET before == {k \in Terminators : k < j}
    IN  IF before = {} THEN 0
        ELSE (CHOOSE k \in before : \A m \in before : m <= k) + 1

\* The calls of all scan workers, as pairs <<worker, position in its log>>.
CallIds == UNION {{<<w, k>> : k \in 1 .. Len(calls[w])} : w \in ScanWorkers}

\* C18: for a file of well-formed address lines, each ended by '\n', once the
\* scan workers have joined every line has been parsed and marked exactly once
\* over all workers: there are as many calls as lines, each line is the
\* argument of exactly one call, that call covers the complete line and its
\* bit is the bit of the line's address; a worker whose range is empty has made
\* no call.
C18_EveryLineMarkedOnce ==
    (AfterJoin /\ InputMapped /\ Terminated(file) /\ WellFormedLines(file)) =>
        /\ Cardinality(CallIds) = Cardinality(Terminators)
        /\ Cardinality(Terminators) = Len(SplitLines(file))
        /\ \A j \in Terminators :
              /\ Cardinality({id \in CallIds : calls[id[1]][id[2]].to = j}) = 1
              /\ \A id \in CallIds :
                    LET c == calls[id[1]][id[2]]
                    IN  c.to = j =>
                          /\ c.from = LineStartOf(j)
                          /\ start[id[1]] <= c.from
                          /\ c.to < end[id[1]]
                          /\ Reconstruct(BitPos(c)) = AddrOf(LineOfCall(c))
                          /\ BitPos(c) \in bitmap
        /\ \A w \in ScanWorkers : start[w] = end[w] => calls[w] = << >>

C18_Witness ==
    /\ AfterJoin
    /\ Terminated(file)
    /\ WellFormedLines(file)
    /\ Len(SplitLines(file)) = MaxLines
    /\ numCPU >= 3
    /\ \E w \in ScanWorkers : start[w] = end[w] /\ calls[w] = << >>
    /\ \E w1, w2 \in ScanWorkers : w1 # w2 /\ calls[w1] # << >> /\ calls[w2] # << >>
    /\ Cardinality(CallIds) = MaxLines

====
